---- MODULE Spec2Model ----
(***************************************************************************)
(* The record stores of contact_manager.py and todo_manager.py: the JSON   *)
(* file, the in-memory list of dictionaries, and the menu handlers that    *)
(* read user input, change the list and rewrite the file.                  *)
(*                                                                         *)
(* A Python str is a sequence of one-character strings.  A Python scalar   *)
(* is a record [t, n, s]; a dict is a function from scalars to scalars; a  *)
(* list of dicts is a sequence.  A JSON document is kept apart from the    *)
(* Python values it is parsed into, so that json.dump and json.load are    *)
(* conversions between two representations.                                *)
(***************************************************************************)
EXTENDS Integers, Sequences, FiniteSets, TLC

(***************************************************************************)
(* Bound of the model: a create is explored only while the identifier it   *)
(* would assign is at most MaxId.                                          *)
(***************************************************************************)
MaxId == 2

(***************************************************************************)
(* Bound of the model: the passwords asked for have at most MaxLength      *)
(* characters.                                                             *)
(***************************************************************************)
MaxLength == 2

-----------------------------------------------------------------------------
(* Text *)

Whitespace == {" ", "\t"}

DigitChars == <<"0", "1", "2", "3", "4", "5", "6", "7", "8", "9">>

UpperChars ==
  <<"A", "B", "C", "D", "E", "F", "G", "H", "I", "J", "K", "L", "M",
    "N", "O", "P", "Q", "R", "S", "T", "U", "V", "W", "X", "Y", "Z">>

LowerChars ==
  <<"a", "b", "c", "d", "e", "f", "g", "h", "i", "j", "k", "l", "m",
    "n", "o", "p", "q", "r", "s", "t", "u", "v", "w", "x", "y", "z">>

IsDigit(c) == \E i \in DOMAIN DigitChars : DigitChars[i] = c

DigitVal(c) == (CHOOSE i \in DOMAIN DigitChars : DigitChars[i] = c) - 1

\* str.lower() on one character
LowerChar(c) ==
  IF \E i \in DOMAIN UpperChars : UpperChars[i] = c
    THEN LowerChars[CHOOSE i \in DOMAIN UpperChars : UpperChars[i] = c]
    ELSE c

\* str.lower()
lower(s) == [i \in 1..Len(s) |-> LowerChar(s[i])]

RECURSIVE lstrip(_)
lstrip(s) ==
  IF s # <<>> /\ Head(s) \in Whitespace THEN lstrip(Tail(s)) ELSE s

RECURSIVE rstrip(_)
rstrip(s) ==
  IF s # <<>> /\ s[Len(s)] \in Whitespace
    THEN rstrip(SubSeq(s, 1, Len(s) - 1))
    ELSE s

\* str.strip()
strip(s) == rstrip(lstrip(s))

\* str.isdigit()
isdigit(s) == s # <<>> /\ \A i \in 1..Len(s) : IsDigit(s[i])

RECURSIVE DecimalValue(_)
DecimalValue(s) ==
  IF s = <<>> THEN 0
  ELSE 10 * DecimalValue(SubSeq(s, 1, Len(s) - 1)) + DigitVal(s[Len(s)])

\* x in y for two strings
Contains(needle, hay) ==
  \E i \in 1..(Len(hay) + 1) :
    /\ i + Len(needle) - 1 <= Len(hay)
    /\ SubSeq(hay, i, i + Len(needle) - 1) = needle

\* int(text): surrounding whitespace, an optional sign, decimal digits;
\* anything else raises ValueError.
IntBody(s) ==
  LET t == strip(s)
  IN  IF t # <<>> /\ Head(t) \in {"+", "-"} THEN Tail(t) ELSE t

IntParses(s) == isdigit(IntBody(s))

IntOf(s) ==
  LET t == strip(s)
      v == DecimalValue(IntBody(s))
  IN  IF t # <<>> /\ Head(t) = "-" THEN 0 - v ELSE v

RECURSIVE NatText(_)
NatText(n) ==
  IF n < 10 THEN <<DigitChars[n + 1]>>
  ELSE NatText(n \div 10) \o <<DigitChars[(n % 10) + 1]>>

\* str(n) for an int
IntText(n) == IF n < 0 THEN <<"-">> \o NatText(0 - n) ELSE NatText(n)

-----------------------------------------------------------------------------
(* Python values *)

PyNone == [t |-> "none", n |-> 0, s |-> <<>>]
PyInt(i) == [t |-> "int", n |-> i, s |-> <<>>]
PyBool(b) == [t |-> "bool", n |-> IF b THEN 1 ELSE 0, s |-> <<>>]
PyStr(text) == [t |-> "str", n |-> 0, s |-> text]

\* isinstance(v, int): bool is a subclass of int
IsInstanceInt(v) == v.t \in {"int", "bool"}

\* bool(v)
Truthy(v) ==
  CASE v.t \in {"int", "bool"} -> v.n # 0
    [] v.t = "str" -> v.s # <<>>
    [] OTHER -> FALSE

\* a == b
PyEq(a, b) ==
  IF IsInstanceInt(a) /\ IsInstanceInt(b) THEN a.n = b.n ELSE a = b

\* d.get(key, default)
Get(d, key, default) == IF key \in DOMAIN d THEN d[key] ELSE default

\* d[key] raises KeyError when the key is missing
HasKey(d, key) == key \in DOMAIN d

\* d with d[key] = value
SetItem(d, key, value) ==
  [k \in (DOMAIN d) \cup {key} |-> IF k = key THEN value ELSE d[k]]

EmptyDict == [k \in {} |-> PyNone]

K_id == PyStr(<<"i", "d">>)
K_name == PyStr(<<"n", "a", "m", "e">>)
K_phone == PyStr(<<"p", "h", "o", "n", "e">>)
K_email == PyStr(<<"e", "m", "a", "i", "l">>)
K_address == PyStr(<<"a", "d", "d", "r", "e", "s", "s">>)
K_description ==
  PyStr(<<"d", "e", "s", "c", "r", "i", "p", "t", "i", "o", "n">>)
K_completed == PyStr(<<"c", "o", "m", "p", "l", "e", "t", "e", "d">>)
K_due_date == PyStr(<<"d", "u", "e", "_", "d", "a", "t", "e">>)
K_notes == PyStr(<<"n", "o", "t", "e", "s">>)

-----------------------------------------------------------------------------
(* JSON documents and the persisted file *)

JNull == [j |-> "null", n |-> 0, s |-> <<>>]
JTrue == [j |-> "true", n |-> 0, s |-> <<>>]
JFalse == [j |-> "false", n |-> 0, s |-> <<>>]
JNumber(i) == [j |-> "number", n |-> i, s |-> <<>>]
JString(text) == [j |-> "string", n |-> 0, s |-> text]

\* An element of a top-level array: an object (member name -> value), a
\* scalar, or an array of two-element arrays of scalars.
JObject(members) ==
  [e |-> "object", obj |-> members, val |-> JNull, arr |-> <<>>]
JScalar(v) ==
  [e |-> "scalar", obj |-> [k \in {} |-> JNull], val |-> v, arr |-> <<>>]
JPairs(pairs) ==
  [e |-> "array", obj |-> [k \in {} |-> JNull], val |-> JNull, arr |-> pairs]

\* The file: missing, present but unreadable, bytes that are not UTF-8, text
\* that is not JSON, or a JSON document with an array or something else on top.
FileAbsent == [kind |-> "absent", top |-> "", items |-> <<>>]
FileUnreadable == [kind |-> "unreadable", top |-> "", items |-> <<>>]
FileUndecodable == [kind |-> "undecodable", top |-> "", items |-> <<>>]
FileNotJson == [kind |-> "notjson", top |-> "", items |-> <<>>]
FileJsonOther == [kind |-> "json", top |-> "object", items |-> <<>>]
FileJsonArray(items) == [kind |-> "json", top |-> "array", items |-> items]

\* json.load on a scalar
json_decode_value(jv) ==
  CASE jv.j = "number" -> PyInt(jv.n)
    [] jv.j = "string" -> PyStr(jv.s)
    [] jv.j = "true" -> PyBool(TRUE)
    [] jv.j = "false" -> PyBool(FALSE)
    [] OTHER -> PyNone

\* json.dump on a scalar
json_encode_value(v) ==
  CASE v.t = "int" -> JNumber(v.n)
    [] v.t = "str" -> JString(v.s)
    [] v.t = "bool" -> (IF v.n = 1 THEN JTrue ELSE JFalse)
    [] OTHER -> JNull

\* json.dump on a dict key: a str is kept, any other scalar becomes its text
json_key_text(k) ==
  CASE k.t = "str" -> k.s
    [] k.t = "int" -> IntText(k.n)
    [] k.t = "bool" ->
         (IF k.n = 1 THEN <<"t", "r", "u", "e">>
                     ELSE <<"f", "a", "l", "s", "e">>)
    [] OTHER -> <<"n", "u", "l", "l">>

\* json.load on an element of the top-level array: a dict with str keys, a
\* scalar, or a list of two-element lists
json_decode_element(el) ==
  CASE el.e = "object" ->
         [e |-> "dict",
          d |-> [k \in {PyStr(m) : m \in DOMAIN el.obj} |->
                   json_decode_value(el.obj[k.s])],
          v |-> PyNone, l |-> <<>>]
    [] el.e = "scalar" ->
         [e |-> "scalar", d |-> EmptyDict, v |-> json_decode_value(el.val),
          l |-> <<>>]
    [] OTHER ->
         [e |-> "list", d |-> EmptyDict, v |-> PyNone,
          l |-> [i \in 1..Len(el.arr) |->
                   <<json_decode_value(el.arr[i][1]),
                     json_decode_value(el.arr[i][2])>>]]

\* dict(entry): a dict is copied; a list of pairs becomes a dict (a later
\* pair wins); an empty str has no items; any other scalar raises.
dict_exc(entry) ==
  CASE entry.e = "scalar" /\ entry.v.t = "str" /\ entry.v.s # <<>> ->
         "ValueError"
    [] entry.e = "scalar" /\ entry.v.t # "str" -> "TypeError"
    [] OTHER -> ""

dict_value(entry) ==
  CASE entry.e = "dict" -> entry.d
    [] entry.e = "list" ->
         [k \in {entry.l[i][1] : i \in 1..Len(entry.l)} |->
            LET last_i ==
                  CHOOSE i \in 1..Len(entry.l) :
                    /\ entry.l[i][1] = k
                    /\ \A j \in 1..Len(entry.l) : entry.l[j][1] = k => j <= i
            IN  entry.l[last_i][2]]
    [] OTHER -> EmptyDict

\* json.dump(records, f): one object per dict, members named by the key text
json_dump(records) ==
  FileJsonArray(
    [i \in 1..Len(records) |->
       JObject([m \in {json_key_text(k) : k \in DOMAIN records[i]} |->
                  json_encode_value(
                    records[i][CHOOSE k \in DOMAIN records[i] :
                                 json_key_text(k) = m])])])

\* The body shared by load_contacts and load_tasks, on the file f:
\* [exc |-> the exception that escapes, or "", value |-> the list returned].
LoadResult(exc, value) == [exc |-> exc, value |-> value]

load_contacts(f) ==
  CASE f.kind = "absent" -> LoadResult("", <<>>)
    [] f.kind \in {"unreadable", "notjson"} -> LoadResult("", <<>>)
    [] f.kind = "undecodable" -> LoadResult("UnicodeDecodeError", <<>>)
    [] f.kind = "json" /\ f.top # "array" -> LoadResult("", <<>>)
    [] OTHER ->
         LET data == [i \in 1..Len(f.items) |-> json_decode_element(f.items[i])]
             bad == {i \in 1..Len(data) : dict_exc(data[i]) # ""}
         IN  IF bad # {}
               THEN LoadResult(
                      dict_exc(data[CHOOSE i \in bad : \A j \in bad : i <= j]),
                      <<>>)
               ELSE LoadResult("", [i \in 1..Len(data) |-> dict_value(data[i])])

load_tasks(f) ==
  CASE f.kind = "absent" -> LoadResult("", <<>>)
    [] f.kind \in {"unreadable", "notjson"} -> LoadResult("", <<>>)
    [] f.kind = "undecodable" -> LoadResult("UnicodeDecodeError", <<>>)
    [] f.kind = "json" /\ f.top # "array" -> LoadResult("", <<>>)
    [] OTHER ->
         LET data == [i \in 1..Len(f.items) |-> json_decode_element(f.items[i])]
             bad == {i \in 1..Len(data) : dict_exc(data[i]) # ""}
         IN  IF bad # {}
               THEN LoadResult(
                      dict_exc(data[CHOOSE i \in bad : \A j \in bad : i <= j]),
                      <<>>)
               ELSE LoadResult("", [i \in 1..Len(data) |-> dict_value(data[i])])

\* save_contacts / save_tasks on the file f, by what the write does: "ok" the
\* whole list is written; "open" open() raises IOError and the file is left
\* as it was; "write" the file was truncated by open() and the write raises
\* IOError part way, leaving text that is not JSON.  IOError is caught and
\* reported.
SaveOutcomes == {"ok", "open", "write"}

save_contacts(contacts, f, outcome) ==
  CASE outcome = "ok" -> json_dump(contacts)
    [] outcome = "open" -> f
    [] OTHER -> FileNotJson

save_tasks(tasks, f, outcome) ==
  CASE outcome = "ok" -> json_dump(tasks)
    [] outcome = "open" -> f
    [] OTHER -> FileNotJson

-----------------------------------------------------------------------------
(* Helpers shared by the handlers *)

SetMax(S) == IF S = {} THEN 0 ELSE CHOOSE m \in S : \A x \in S : x <= m

\* What a handler did: the list it leaves, whether it called save, the
\* messages it printed, the exception that escaped it ("" for none), and the
\* identifier it assigned (0 for none).
Res(records, save, out, exc, id) ==
  [store |-> records, save |-> save, out |-> out, exc |-> exc, id |-> id]

\* a == b for two dicts
DictEq(a, b) ==
  /\ DOMAIN a = DOMAIN b
  /\ \A k \in DOMAIN a : PyEq(a[k], b[k])

\* list.remove(x): drops the first element equal to x
ListRemove(list, x) ==
  LET hits == {i \in 1..Len(list) : DictEq(list[i], x)}
      at == CHOOSE i \in hits : \A j \in hits : i <= j
  IN  [i \in 1..(Len(list) - 1) |-> IF i < at THEN list[i] ELSE list[i + 1]]

\* datetime.strptime(text, "%Y-%m-%d") succeeds: four digits, "-", a month
\* 1..12 in one or two digits, "-", a day in one or two characters, and the
\* day exists in that month of that year (year 0 is out of range).
MonthValue(m) ==
  CASE Len(m) = 1 /\ isdigit(m) /\ m # <<"0">> -> DecimalValue(m)
    [] Len(m) = 2 /\ isdigit(m) /\ DecimalValue(m) \in 1..12 -> DecimalValue(m)
    [] OTHER -> 0

DayValue(d) ==
  CASE Len(d) = 1 /\ isdigit(d) /\ d # <<"0">> -> DecimalValue(d)
    [] Len(d) = 2 /\ isdigit(d) /\ DecimalValue(d) \in 1..31 -> DecimalValue(d)
    [] Len(d) = 2 /\ d[1] = " " /\ isdigit(<<d[2]>>) /\ d[2] # "0" ->
         DecimalValue(<<d[2]>>)
    [] OTHER -> 0

IsLeap(y) == (y % 4 = 0 /\ y % 100 # 0) \/ y % 400 = 0

DaysIn(y, m) ==
  CASE m \in {4, 6, 9, 11} -> 30
    [] m = 2 -> (IF IsLeap(y) THEN 29 ELSE 28)
    [] OTHER -> 31

strptime_ok(text) ==
  /\ Len(text) >= 8
  /\ isdigit(SubSeq(text, 1, 4))
  /\ text[5] = "-"
  /\ \E p \in 7..(Len(text) - 1) :
       /\ text[p] = "-"
       /\ LET y == DecimalValue(SubSeq(text, 1, 4))
              m == MonthValue(SubSeq(text, 6, p - 1))
              d == DayValue(SubSeq(text, p + 1, Len(text)))
          IN  y >= 1 /\ m >= 1 /\ d >= 1 /\ d <= DaysIn(y, m)

-----------------------------------------------------------------------------
(* todo_manager.py *)

\* generate_new_id counting the tasks instead of taking the largest id
todo_generate_new_id_by_length(tasks) == Len(tasks) + 1

todo_generate_new_id(tasks) ==
  IF tasks = <<>> THEN 1
  ELSE LET existing_ids ==
             {Get(tasks[i], K_id, PyInt(0)).n :
                i \in {j \in 1..Len(tasks) :
                         IsInstanceInt(Get(tasks[j], K_id, PyNone))}}
       IN  SetMax(existing_ids \cup {0}) + 1

\* list_tasks prints task['id'] and task['description'] of every task
list_tasks_exc(tasks) ==
  IF \E i \in 1..Len(tasks) :
       ~HasKey(tasks[i], K_id) \/ ~HasKey(tasks[i], K_description)
    THEN "KeyError" ELSE ""

list_tasks(tasks) ==
  IF tasks = <<>> THEN Res(tasks, FALSE, <<"No tasks found.">>, "", 0)
  ELSE Res(tasks, FALSE, <<>>, list_tasks_exc(tasks), 0)

\* find_task_by_id with the first task, not None, as the default of next()
find_task_by_id_or_first(tasks, task_id) ==
  LET hits == {i \in 1..Len(tasks) :
                 PyEq(Get(tasks[i], K_id, PyNone), PyInt(task_id))}
  IN  IF hits = {} THEN (IF tasks = <<>> THEN 0 ELSE 1)
      ELSE CHOOSE i \in hits : \A j \in hits : i <= j

\* The position of the first task whose id equals task_id, 0 for None
find_task_by_id(tasks, task_id) ==
  LET hits == {i \in 1..Len(tasks) :
                 PyEq(Get(tasks[i], K_id, PyNone), PyInt(task_id))}
  IN  IF hits = {} THEN 0 ELSE CHOOSE i \in hits : \A j \in hits : i <= j

\* add_task storing the due date as typed although strptime rejected it
add_task_keeps_invalid_date(tasks, description_in, due_in, notes_in) ==
  LET description == strip(description_in)
      due_date_input == strip(due_in)
      valid == due_date_input # <<>> /\ strptime_ok(due_date_input)
      new_id == todo_generate_new_id(tasks)
      new_task ==
        [k \in {K_id, K_description, K_completed, K_due_date, K_notes} |->
           CASE k = K_id -> PyInt(new_id)
             [] k = K_description -> PyStr(description)
             [] k = K_completed -> PyBool(FALSE)
             [] k = K_due_date -> PyStr(due_date_input)
             [] OTHER -> PyStr(strip(notes_in))]
  IN  IF description = <<>>
        THEN Res(tasks, FALSE,
                 <<"Description cannot be empty. Task not added.">>, "", 0)
        ELSE Res(Append(tasks, new_task), TRUE,
                 (IF due_date_input # <<>> /\ ~valid
                    THEN <<"Invalid date format. Due date ignored.">>
                    ELSE <<>>) \o <<"Task added successfully!">>,
                 "", new_id)

add_task(tasks, description_in, due_in, notes_in) ==
  LET description == strip(description_in)
      due_date_input == strip(due_in)
      valid == due_date_input # <<>> /\ strptime_ok(due_date_input)
      due_date == IF valid THEN due_date_input ELSE <<>>
      notes == strip(notes_in)
      new_id == todo_generate_new_id(tasks)
      new_task ==
        [k \in {K_id, K_description, K_completed, K_due_date, K_notes} |->
           CASE k = K_id -> PyInt(new_id)
             [] k = K_description -> PyStr(description)
             [] k = K_completed -> PyBool(FALSE)
             [] k = K_due_date -> PyStr(due_date)
             [] OTHER -> PyStr(notes)]
  IN  IF description = <<>>
        THEN Res(tasks, FALSE,
                 <<"Description cannot be empty. Task not added.">>, "", 0)
        ELSE Res(Append(tasks, new_task), TRUE,
                 (IF due_date_input # <<>> /\ ~valid
                    THEN <<"Invalid date format. Due date ignored.">>
                    ELSE <<>>) \o <<"Task added successfully!">>,
                 "", new_id)

\* update_task assigning description and notes without testing the input
update_task_overwrite(tasks, id_in, description_in, due_in, notes_in) ==
  LET task_id == IntOf(id_in)
      at == find_task_by_id(tasks, task_id)
      task == tasks[at]
      new_due == strip(due_in)
      valid == new_due # <<>> /\ strptime_ok(new_due)
      t1 == SetItem(task, K_description, PyStr(strip(description_in)))
      t2 == IF valid THEN SetItem(t1, K_due_date, PyStr(new_due)) ELSE t1
      t3 == SetItem(t2, K_notes, PyStr(strip(notes_in)))
  IN  CASE tasks = <<>> -> list_tasks(tasks)
        [] list_tasks_exc(tasks) # "" -> list_tasks(tasks)
        [] ~IntParses(id_in) ->
             Res(tasks, FALSE, <<"Invalid input. Update cancelled.">>, "", 0)
        [] task_id = 0 -> Res(tasks, FALSE, <<"Update cancelled.">>, "", 0)
        [] at = 0 -> Res(tasks, FALSE, <<"Task not found.">>, "", 0)
        [] ~HasKey(task, K_due_date) \/ ~HasKey(task, K_notes) ->
             Res(tasks, FALSE, <<>>, "KeyError", 0)
        [] OTHER ->
             Res([tasks EXCEPT ![at] = t3], TRUE,
                 (IF new_due # <<>> /\ ~valid
                    THEN <<"Invalid date format. Due date not updated.">>
                    ELSE <<>>) \o <<"Task updated successfully!">>,
                 "", 0)

update_task(tasks, id_in, description_in, due_in, notes_in) ==
  LET task_id == IntOf(id_in)
      at == find_task_by_id(tasks, task_id)
      task == tasks[at]
      new_description == strip(description_in)
      new_due == strip(due_in)
      new_notes == strip(notes_in)
      valid == new_due # <<>> /\ strptime_ok(new_due)
      t1 == IF new_description # <<>>
              THEN SetItem(task, K_description, PyStr(new_description))
              ELSE task
      t2 == IF valid THEN SetItem(t1, K_due_date, PyStr(new_due)) ELSE t1
      t3 == IF new_notes # <<>>
              THEN SetItem(t2, K_notes, PyStr(new_notes))
              ELSE t2
  IN  CASE tasks = <<>> -> list_tasks(tasks)
        [] list_tasks_exc(tasks) # "" -> list_tasks(tasks)
        [] ~IntParses(id_in) ->
             Res(tasks, FALSE, <<"Invalid input. Update cancelled.">>, "", 0)
        [] task_id = 0 -> Res(tasks, FALSE, <<"Update cancelled.">>, "", 0)
        [] at = 0 -> Res(tasks, FALSE, <<"Task not found.">>, "", 0)
        [] ~HasKey(task, K_due_date) \/ ~HasKey(task, K_notes) ->
             Res(tasks, FALSE, <<>>, "KeyError", 0)
        [] OTHER ->
             Res([tasks EXCEPT ![at] = t3], TRUE,
                 (IF new_due # <<>> /\ ~valid
                    THEN <<"Invalid date format. Due date not updated.">>
                    ELSE <<>>) \o <<"Task updated successfully!">>,
                 "", 0)

\* toggle_completion without its call of save_tasks
toggle_completion_no_save(tasks, id_in) ==
  LET task_id == IntOf(id_in)
      at == find_task_by_id(tasks, task_id)
      task == tasks[at]
      completed == ~Truthy(Get(task, K_completed, PyBool(FALSE)))
  IN  CASE tasks = <<>> -> list_tasks(tasks)
        [] list_tasks_exc(tasks) # "" -> list_tasks(tasks)
        [] ~IntParses(id_in) ->
             Res(tasks, FALSE, <<"Invalid input. Operation cancelled.">>, "", 0)
        [] task_id = 0 -> Res(tasks, FALSE, <<"Operation cancelled.">>, "", 0)
        [] at = 0 -> Res(tasks, FALSE, <<"Task not found.">>, "", 0)
        [] OTHER ->
             Res([tasks EXCEPT
                    ![at] = SetItem(task, K_completed, PyBool(completed))],
                 FALSE,
                 <<IF completed THEN "Task marked as completed."
                                ELSE "Task marked as pending.">>,
                 "", 0)

\* toggle_completion setting completed to True whatever it was
toggle_completion_marks_completed(tasks, id_in) ==
  LET task_id == IntOf(id_in)
      at == find_task_by_id(tasks, task_id)
      task == tasks[at]
  IN  CASE tasks = <<>> -> list_tasks(tasks)
        [] list_tasks_exc(tasks) # "" -> list_tasks(tasks)
        [] ~IntParses(id_in) ->
             Res(tasks, FALSE, <<"Invalid input. Operation cancelled.">>, "", 0)
        [] task_id = 0 -> Res(tasks, FALSE, <<"Operation cancelled.">>, "", 0)
        [] at = 0 -> Res(tasks, FALSE, <<"Task not found.">>, "", 0)
        [] OTHER ->
             Res([tasks EXCEPT
                    ![at] = SetItem(task, K_completed, PyBool(TRUE))],
                 TRUE, <<"Task marked as completed.">>, "", 0)

toggle_completion(tasks, id_in) ==
  LET task_id == IntOf(id_in)
      at == find_task_by_id(tasks, task_id)
      task == tasks[at]
      completed == ~Truthy(Get(task, K_completed, PyBool(FALSE)))
  IN  CASE tasks = <<>> -> list_tasks(tasks)
        [] list_tasks_exc(tasks) # "" -> list_tasks(tasks)
        [] ~IntParses(id_in) ->
             Res(tasks, FALSE, <<"Invalid input. Operation cancelled.">>, "", 0)
        [] task_id = 0 -> Res(tasks, FALSE, <<"Operation cancelled.">>, "", 0)
        [] at = 0 -> Res(tasks, FALSE, <<"Task not found.">>, "", 0)
        [] OTHER ->
             Res([tasks EXCEPT
                    ![at] = SetItem(task, K_completed, PyBool(completed))],
                 TRUE,
                 <<IF completed THEN "Task marked as completed."
                                ELSE "Task marked as pending.">>,
                 "", 0)

\* delete_task removing the first task of the list, not the one it found
delete_task_removes_first(tasks, id_in, confirm_in) ==
  LET task_id == IntOf(id_in)
      at == find_task_by_id(tasks, task_id)
      confirm == lower(strip(confirm_in))
  IN  CASE tasks = <<>> -> list_tasks(tasks)
        [] list_tasks_exc(tasks) # "" -> list_tasks(tasks)
        [] ~IntParses(id_in) ->
             Res(tasks, FALSE, <<"Invalid input. Deletion cancelled.">>, "", 0)
        [] task_id = 0 -> Res(tasks, FALSE, <<"Deletion cancelled.">>, "", 0)
        [] at = 0 -> Res(tasks, FALSE, <<"Task not found.">>, "", 0)
        [] confirm \in {<<"y">>, <<"y", "e", "s">>} ->
             Res(Tail(tasks), TRUE, <<"Task deleted successfully!">>, "", 0)
        [] OTHER -> Res(tasks, FALSE, <<"Deletion aborted.">>, "", 0)

delete_task(tasks, id_in, confirm_in) ==
  LET task_id == IntOf(id_in)
      at == find_task_by_id(tasks, task_id)
      task == tasks[at]
      confirm == lower(strip(confirm_in))
  IN  CASE tasks = <<>> -> list_tasks(tasks)
        [] list_tasks_exc(tasks) # "" -> list_tasks(tasks)
        [] ~IntParses(id_in) ->
             Res(tasks, FALSE, <<"Invalid input. Deletion cancelled.">>, "", 0)
        [] task_id = 0 -> Res(tasks, FALSE, <<"Deletion cancelled.">>, "", 0)
        [] at = 0 -> Res(tasks, FALSE, <<"Task not found.">>, "", 0)
        [] confirm \in {<<"y">>, <<"y", "e", "s">>} ->
             Res(ListRemove(tasks, task), TRUE,
                 <<"Task deleted successfully!">>, "", 0)
        [] OTHER -> Res(tasks, FALSE, <<"Deletion aborted.">>, "", 0)

-----------------------------------------------------------------------------
(* contact_manager.py *)

\* generate_new_id without the + 1
contact_generate_new_id_no_increment(contacts) ==
  IF contacts = <<>> THEN 1
  ELSE SetMax({Get(contacts[i], K_id, PyInt(0)).n :
                 i \in {j \in 1..Len(contacts) :
                          IsInstanceInt(Get(contacts[j], K_id, PyNone))}}
              \cup {0})

contact_generate_new_id(contacts) ==
  IF contacts = <<>> THEN 1
  ELSE LET existing_ids ==
             {Get(contacts[i], K_id, PyInt(0)).n :
                i \in {j \in 1..Len(contacts) :
                         IsInstanceInt(Get(contacts[j], K_id, PyNone))}}
       IN  SetMax(existing_ids \cup {0}) + 1

\* add_contact requiring the name only
add_contact_name_only_required(contacts, name_in, phone_in, email_in, address_in) ==
  LET name == strip(name_in)
      new_id == contact_generate_new_id(contacts)
      new_contact ==
        [k \in {K_id, K_name, K_phone, K_email, K_address} |->
           CASE k = K_id -> PyInt(new_id)
             [] k = K_name -> PyStr(name)
             [] k = K_phone -> PyStr(strip(phone_in))
             [] k = K_email -> PyStr(strip(email_in))
             [] OTHER -> PyStr(strip(address_in))]
  IN  IF name = <<>>
        THEN Res(contacts, FALSE,
                 <<"Name and phone number are required. Contact not added.">>,
                 "", 0)
        ELSE Res(Append(contacts, new_contact), TRUE,
                 <<"Contact added successfully!">>, "", new_id)

add_contact(contacts, name_in, phone_in, email_in, address_in) ==
  LET name == strip(name_in)
      phone == strip(phone_in)
      email == strip(email_in)
      address == strip(address_in)
      new_id == contact_generate_new_id(contacts)
      new_contact ==
        [k \in {K_id, K_name, K_phone, K_email, K_address} |->
           CASE k = K_id -> PyInt(new_id)
             [] k = K_name -> PyStr(name)
             [] k = K_phone -> PyStr(phone)
             [] k = K_email -> PyStr(email)
             [] OTHER -> PyStr(address)]
  IN  IF name = <<>> \/ phone = <<>>
        THEN Res(contacts, FALSE,
                 <<"Name and phone number are required. Contact not added.">>,
                 "", 0)
        ELSE Res(Append(contacts, new_contact), TRUE,
                 <<"Contact added successfully!">>, "", new_id)

\* view_contacts reads with .get only: nothing it does can raise
view_contacts(contacts) ==
  Res(contacts, FALSE,
      IF contacts = <<>> THEN <<"No contacts found.">> ELSE <<>>, "", 0)

\* the match of search_contacts looking at the name only
contact_matches_name_only(c, query) ==
  Contains(query, lower(Get(c, K_name, PyStr(<<>>)).s))

\* query in c.get("name", "").lower() or query in c.get("phone", "").lower()
contact_matches(c, query) ==
  \/ Contains(query, lower(Get(c, K_name, PyStr(<<>>)).s))
  \/ Contains(query, lower(Get(c, K_phone, PyStr(<<>>)).s))

\* .lower() on a value that is not a str raises AttributeError; phone is
\* looked at only when the name does not match
contact_match_exc(c, query) ==
  LET name == Get(c, K_name, PyStr(<<>>))
      phone == Get(c, K_phone, PyStr(<<>>))
  IN  CASE name.t # "str" -> "AttributeError"
        [] ~Contains(query, lower(name.s)) /\ phone.t # "str" -> "AttributeError"
        [] OTHER -> ""

RECURSIVE Ascending(_)
Ascending(S) ==
  IF S = {} THEN <<>>
  ELSE LET m == CHOOSE x \in S : \A y \in S : x <= y
       IN  <<m>> \o Ascending(S \ {m})

\* search_contacts comparing the query as typed, without .lower()
search_results_query_not_lowered(contacts, query_in) ==
  LET query == strip(query_in)
  IN  Ascending({i \in 1..Len(contacts) : contact_matches(contacts[i], query)})

\* The list comprehension of search_contacts, as the positions in contacts
\* of the dicts it returns, in list order
search_results(contacts, query_in) ==
  LET query == lower(strip(query_in))
  IN  Ascending({i \in 1..Len(contacts) : contact_matches(contacts[i], query)})

\* The exception that escapes search_contacts: from the comprehension, or
\* from printing contact['name'] and contact['phone'] of a result
search_exc(contacts, query_in) ==
  LET query == lower(strip(query_in))
      bad == {i \in 1..Len(contacts) : contact_match_exc(contacts[i], query) # ""}
      results == search_results(contacts, query_in)
  IN  CASE bad # {} -> "AttributeError"
        [] \E r \in 1..Len(results) :
             \/ ~HasKey(contacts[results[r]], K_name)
             \/ ~HasKey(contacts[results[r]], K_phone) -> "KeyError"
        [] OTHER -> ""

search_contacts(contacts, query_in) ==
  CASE contacts = <<>> ->
         Res(contacts, FALSE, <<"No contacts to search.">>, "", 0)
    [] search_exc(contacts, query_in) # "" ->
         Res(contacts, FALSE, <<>>, search_exc(contacts, query_in), 0)
    [] search_results(contacts, query_in) = <<>> ->
         Res(contacts, FALSE, <<"No matching contacts found.">>, "", 0)
    [] OTHER -> Res(contacts, FALSE, <<"Search Results:">>, "", 0)

\* select_contact over n listed contacts and the answers typed at its
\* prompt: the number selected, 0 for None, -1 while it is still prompting
RECURSIVE select_contact(_, _)
select_contact(n, choices) ==
  IF choices = <<>> THEN 0 - 1
  ELSE LET choice == strip(Head(choices))
       IN  CASE choice = <<>> -> 0
             [] isdigit(choice) /\ DecimalValue(choice) \in 1..n ->
                  DecimalValue(choice)
             [] OTHER -> select_contact(n, Tail(choices))

\* "Invalid selection. Try again." once per answer that did not end the loop
RECURSIVE select_out(_, _)
select_out(n, choices) ==
  IF choices = <<>> THEN <<>>
  ELSE LET choice == strip(Head(choices))
       IN  CASE choice = <<>> -> <<>>
             [] isdigit(choice) /\ DecimalValue(choice) \in 1..n -> <<>>
             [] OTHER -> <<"Invalid selection. Try again.">>
                           \o select_out(n, Tail(choices))

update_contact(contacts, query_in, choices, name_in, phone_in, email_in, address_in) ==
  LET results == search_results(contacts, query_in)
      picked == select_contact(Len(results), choices)
      at == results[picked]
      contact == contacts[at]
      new_name == strip(name_in)
      new_phone == strip(phone_in)
      new_email == strip(email_in)
      new_address == strip(address_in)
      c1 == IF new_name # <<>>
              THEN SetItem(contact, K_name, PyStr(new_name)) ELSE contact
      c2 == IF new_phone # <<>>
              THEN SetItem(c1, K_phone, PyStr(new_phone)) ELSE c1
      c3 == IF new_email # <<>>
              THEN SetItem(c2, K_email, PyStr(new_email)) ELSE c2
      c4 == IF new_address # <<>>
              THEN SetItem(c3, K_address, PyStr(new_address)) ELSE c3
  IN  CASE contacts = <<>> \/ search_exc(contacts, query_in) # ""
             \/ results = <<>> -> search_contacts(contacts, query_in)
        [] picked = 0 ->
             Res(contacts, FALSE,
                 select_out(Len(results), choices) \o <<"Update cancelled.">>,
                 "", 0)
        [] ~HasKey(contact, K_email) \/ ~HasKey(contact, K_address) ->
             Res(contacts, FALSE, select_out(Len(results), choices),
                 "KeyError", 0)
        [] OTHER ->
             Res([contacts EXCEPT ![at] = c4], TRUE,
                 select_out(Len(results), choices)
                   \o <<"Contact updated successfully!">>,
                 "", 0)

\* delete_contact taking any answer that starts with "y" for a yes
delete_contact_prefix(contacts, query_in, choices, confirm_in) ==
  LET results == search_results(contacts, query_in)
      picked == select_contact(Len(results), choices)
      contact == contacts[results[picked]]
      confirmation == lower(strip(confirm_in))
  IN  CASE contacts = <<>> \/ search_exc(contacts, query_in) # ""
             \/ results = <<>> -> search_contacts(contacts, query_in)
        [] picked = 0 ->
             Res(contacts, FALSE,
                 select_out(Len(results), choices) \o <<"Deletion cancelled.">>,
                 "", 0)
        [] confirmation # <<>> /\ Head(confirmation) = "y" ->
             Res(ListRemove(contacts, contact), TRUE,
                 select_out(Len(results), choices)
                   \o <<"Contact deleted successfully!">>,
                 "", 0)
        [] OTHER ->
             Res(contacts, FALSE,
                 select_out(Len(results), choices) \o <<"Deletion aborted.">>,
                 "", 0)

delete_contact(contacts, query_in, choices, confirm_in) ==
  LET results == search_results(contacts, query_in)
      picked == select_contact(Len(results), choices)
      contact == contacts[results[picked]]
      confirmation == lower(strip(confirm_in))
  IN  CASE contacts = <<>> \/ search_exc(contacts, query_in) # ""
             \/ results = <<>> -> search_contacts(contacts, query_in)
        [] picked = 0 ->
             Res(contacts, FALSE,
                 select_out(Len(results), choices) \o <<"Deletion cancelled.">>,
                 "", 0)
        [] confirmation \in {<<"y">>, <<"y", "e", "s">>} ->
             Res(ListRemove(contacts, contact), TRUE,
                 select_out(Len(results), choices)
                   \o <<"Contact deleted successfully!">>,
                 "", 0)
        [] OTHER ->
             Res(contacts, FALSE,
                 select_out(Len(results), choices) \o <<"Deletion aborted.">>,
                 "", 0)


-----------------------------------------------------------------------------
(* password_generator.py *)

ascii_lowercase == LowerChars

ascii_uppercase == UpperChars

digits == DigitChars

\* string.punctuation.  A TLA+ string cannot hold the grave accent (U+0060):
\* "grave" stands for that one character.
punctuation ==
  <<"!", "\"", "#", "$", "%", "&", "'", "(", ")", "*", "+", ",", "-", ".",
    "/", ":", ";", "<", "=", ">", "?", "@", "[", "\\", "]", "^", "_", "grave",
    "{", "|", "}", "~">>

\* The pool generate_password samples from, in the order it is built
characters(use_uppercase, use_lowercase, use_digits, use_symbols) ==
  (IF use_lowercase THEN ascii_lowercase ELSE <<>>)
    \o (IF use_uppercase THEN ascii_uppercase ELSE <<>>)
    \o (IF use_digits THEN digits ELSE <<>>)
    \o (IF use_symbols THEN punctuation ELSE <<>>)

\* secure_random.choice(seq), r being the integer the random source gave:
\* the element at an index below len(seq)
choice(seq, r) == seq[(r % Len(seq)) + 1]

\* What a call of generate_password comes to: the exception raised, with its
\* message, or the str returned
Outcome(exc, message, value) ==
  [exc |-> exc, message |-> message, value |-> value]

\* generate_password joining one character too few: range(length - 1)
generate_password_one_short(length, use_uppercase, use_lowercase, use_digits, use_symbols, draws) ==
  LET pool == characters(use_uppercase, use_lowercase, use_digits, use_symbols)
  IN  CASE length <= 0 ->
             Outcome("ValueError",
                     "Password length must be a positive integer.", <<>>)
        [] pool = <<>> ->
             Outcome("ValueError",
                     "No character types selected. Enable at least one type of characters.",
                     <<>>)
        [] OTHER ->
             Outcome("", "", [i \in 1..(length - 1) |-> choice(pool, draws[i])])

\* draws[i] is what the random source gives for the i-th character
generate_password(length, use_uppercase, use_lowercase, use_digits, use_symbols, draws) ==
  LET pool == characters(use_uppercase, use_lowercase, use_digits, use_symbols)
  IN  CASE length <= 0 ->
             Outcome("ValueError",
                     "Password length must be a positive integer.", <<>>)
        [] pool = <<>> ->
             Outcome("ValueError",
                     "No character types selected. Enable at least one type of characters.",
                     <<>>)
        [] OTHER ->
             Outcome("", "", [i \in 1..length |-> choice(pool, draws[i])])

\* One answer at the prompt of ask_yes_no: what it makes the loop return
IsYesAnswer(answer) == lower(strip(answer)) \in {<<"y">>, <<"y", "e", "s">>}
IsNoAnswer(answer) == lower(strip(answer)) \in {<<"n">>, <<"n", "o">>}

\* ask_yes_no comes to a return on one of the answers
RECURSIVE ask_yes_no_returns(_)
ask_yes_no_returns(answers) ==
  /\ answers # <<>>
  /\ \/ IsYesAnswer(Head(answers))
     \/ IsNoAnswer(Head(answers))
     \/ ask_yes_no_returns(Tail(answers))

\* The bool ask_yes_no returns on the answers typed at its prompt
RECURSIVE ask_yes_no(_)
ask_yes_no(answers) ==
  CASE answers = <<>> -> FALSE
    [] IsYesAnswer(Head(answers)) -> TRUE
    [] IsNoAnswer(Head(answers)) -> FALSE
    [] OTHER -> ask_yes_no(Tail(answers))

\* "Please answer with 'y' or 'n'." once per answer that is neither
RECURSIVE ask_yes_no_out(_)
ask_yes_no_out(answers) ==
  CASE answers = <<>> -> <<>>
    [] IsYesAnswer(Head(answers)) \/ IsNoAnswer(Head(answers)) -> <<>>
    [] OTHER -> <<"Please answer with 'y' or 'n'.">>
                  \o ask_yes_no_out(Tail(answers))

\* The length loop of main over the texts typed at its prompt: the length it
\* breaks with, 0 while it is still prompting
RECURSIVE main_length(_)
main_length(length_inputs) ==
  CASE length_inputs = <<>> -> 0
    [] IntParses(Head(length_inputs)) /\ IntOf(Head(length_inputs)) > 0 ->
         IntOf(Head(length_inputs))
    [] OTHER -> main_length(Tail(length_inputs))

RECURSIVE main_length_out(_)
main_length_out(length_inputs) ==
  CASE length_inputs = <<>> -> <<>>
    [] ~IntParses(Head(length_inputs)) ->
         <<"Invalid input. Please enter a positive integer.">>
           \o main_length_out(Tail(length_inputs))
    [] IntOf(Head(length_inputs)) <= 0 ->
         <<"Please enter a positive integer greater than zero.">>
           \o main_length_out(Tail(length_inputs))
    [] OTHER -> <<>>

\* main with everything typed at its prompts: answers[1..4] are the answers
\* to the four questions, in the order they are asked
main(length_inputs, answers, draws) ==
  LET length == main_length(length_inputs)
      include_uppercase == ask_yes_no(answers[1])
      include_lowercase == ask_yes_no(answers[2])
      include_digits == ask_yes_no(answers[3])
      include_symbols == ask_yes_no(answers[4])
      g == generate_password(length, include_uppercase, include_lowercase,
                             include_digits, include_symbols, draws)
  IN  [out |-> <<"Password Generator">>
                 \o main_length_out(length_inputs)
                 \o ask_yes_no_out(answers[1]) \o ask_yes_no_out(answers[2])
                 \o ask_yes_no_out(answers[3]) \o ask_yes_no_out(answers[4])
                 \o (IF g.exc = "" THEN <<"Generated password: ">>
                     ELSE <<"Error: " \o g.message,
                            "Unable to generate password with the selected options.">>),
       password |-> g.value,
       exc |-> ""]
-----------------------------------------------------------------------------
(* The session: one run of main_menu of contact_manager.py or of            *)
(* todo_manager.py, or of main of password_generator.py                    *)

VARIABLES
  app,          \* "contact", "todo" or "password": the program that is
                \* running ("generate_password": the function, called alone)
  pc,           \* "start"; "menu": at the menu prompt; "returned": load or a
                \* handler has just returned to main_menu; "crashed": an
                \* exception escaped and ended the program; "exited": the
                \* program ended by exit(0) or by the end of the script
  store,        \* the list held by main_menu (contacts / tasks)
  file,         \* contacts.json / tasks.json
  disk,         \* how a write to the file goes during this run
  last,         \* the call that has just returned: what was typed at its
                \* prompts, what it printed, and the list, the file and
                \* issued as they were when it was called
  issued,       \* the identifiers held by records of this store so far
  run,          \* the identifiers assigned by creates since the last deletion
  startedEmpty  \* the list was empty when main_menu got it from load

vars == <<app, pc, store, file, disk, last, issued, run, startedEmpty>>

\* What the user types at the prompts.  The answers to one handler's field
\* prompts are drawn together, as <<first prompt, second prompt, ...>>.
AddContactInputs ==
  {<<<<>>, <<"1">>, <<>>, <<>>>>,
   <<<<"a">>, <<" ">>, <<"e">>, <<>>>>,
   <<<<"a">>, <<"1">>, <<>>, <<>>>>,
   <<<<" ", "B">>, <<"2", " ">>, <<"e">>, <<"d">>>>}
UpdateContactInputs ==
  {<<<<>>, <<" ">>, <<>>, <<"\t">>>>,
   <<<<>>, <<>>, <<" ", "e">>, <<>>>>,
   <<<<"B">>, <<"A">>, <<"e">>, <<"d", " ">>>>}
QueryInputs == {<<>>, <<" ", "A">>, <<"z">>, <<"a">>}
ChoiceLists ==
  {<<IntText(i)>> : i \in 1..(MaxId + 1)}
    \cup {<<<<>>>>, <<<<"x">>, <<" ", "1">>>>, <<<<"0">>, <<" ">>>>}
ConfirmInputs == {<<"y">>, <<" ", "Y", "E", "S">>, <<"n">>, <<>>, <<"y", "e">>}
ValidDate == <<"2", "0", "2", "4", "-", "2", "-", "2", "9">>
InvalidDate == <<"2", "0", "2", "3", "-", "2", "-", "2", "9">>
AddTaskInputs ==
  {<<<<" ">>, <<>>, <<>>>>,
   <<<<"a">>, <<>>, <<>>>>,
   <<<<"a", " ">>, InvalidDate, <<" ">>>>,
   <<<<"b">>, ValidDate, <<"n">>>>}
UpdateTaskInputs ==
  {<<<<>>, <<" ">>, <<>>>>,
   <<<<>>, InvalidDate, <<>>>>,
   <<<<" ", "b">>, ValidDate, <<"n">>>>}
IdInputs ==
  {IntText(i) : i \in 0..(MaxId + 1)}
    \cup {<<"x">>, <<" ", "+", "1">>, <<"-", "1">>}

\* The files a run can find
ForeignContact ==
  JObject([m \in {K_id.s, K_name.s, K_phone.s, K_email.s, K_address.s} |->
             CASE m = K_id.s -> JNumber(1)
               [] m = K_name.s -> JString(<<"a">>)
               [] m = K_phone.s -> JString(<<"1">>)
               [] OTHER -> JString(<<>>)])

ForeignTask ==
  JObject([m \in {K_id.s, K_description.s, K_completed.s, K_due_date.s,
                  K_notes.s} |->
             CASE m = K_id.s -> JNumber(1)
               [] m = K_description.s -> JString(<<"a">>)
               [] m = K_completed.s -> JFalse
               [] OTHER -> JString(<<>>)])

\* A task written by hand, without the "completed" field
UnflaggedTask ==
  JObject([m \in {K_id.s, K_description.s, K_due_date.s, K_notes.s} |->
             CASE m = K_id.s -> JNumber(1)
               [] m = K_description.s -> JString(<<"a">>)
               [] OTHER -> JString(<<>>)])

InitialFiles(a) ==
  IF a = "password" THEN {FileAbsent} ELSE
  {FileAbsent, FileUnreadable, FileUndecodable, FileNotJson, FileJsonOther,
   FileJsonArray(<<>>),
   FileJsonArray(<<JScalar(JNumber(1))>>),
   FileJsonArray(<<JScalar(JString(<<"a">>))>>),
   FileJsonArray(<<JPairs(<<<<JNumber(1), JNumber(2)>>>>)>>),
   FileJsonArray(<<IF a = "contact" THEN ForeignContact ELSE ForeignTask>>),
   FileJsonArray(<<IF a = "contact" THEN ForeignContact ELSE UnflaggedTask>>)}

\* What is typed at the prompts of password_generator.py: at the length
\* prompt until it is satisfied, and at each of the four questions
LengthInputs ==
  {<<IntText(n)>> : n \in 1..MaxLength}
    \cup {<<<<"x">>, <<"0">>, <<"-", "1">>, <<" ", "1">>>>}
Yes == <<<<"y">>>>
No == <<<<"n">>>>
YesNoInputs ==
  {<<Yes, Yes, Yes, Yes>>,
   <<No, No, No, No>>,
   <<<<<<"x">>, <<" ", "Y", "E", "S">>>>, <<<<"N", "o">>>>, Yes, No>>,
   <<No, Yes, No, No>>,
   <<No, No, No, Yes>>}

\* What the random source gives when a character is chosen
DrawValues == {0, 30, 93}

\* An answer that was typed is kept as <<answer>>, a prompt that was never
\* reached as <<>>
NoInput == <<>>
Typed(text) == <<text>>

In(arg, choices, fields, confirm) ==
  [arg |-> arg, choices |-> choices, fields |-> fields, confirm |-> confirm]

NoInputs == In(NoInput, NoInput, NoInput, NoInput)

Last(op, in, r, write, before) ==
  [op |-> op, in |-> in, out |-> r.out, exc |-> r.exc, id |-> r.id,
   write |-> write, before |-> before]

Before(records, f, ids) == [store |-> records, file |-> f, issued |-> ids]

Idle ==
  Last("", NoInputs, Res(<<>>, FALSE, <<>>, "", 0), "none",
       Before(<<>>, FileAbsent, {}))

\* The int ids of a list
IdsOf(records) ==
  {Get(records[i], K_id, PyNone).n :
     i \in {j \in 1..Len(records) : IsInstanceInt(Get(records[j], K_id, PyNone))}}

Init ==
  /\ app \in {"contact", "todo", "password"}
  /\ pc = "start"
  /\ store = <<>>
  /\ disk \in IF app = "password" THEN {"ok"} ELSE SaveOutcomes
  /\ file \in InitialFiles(app)
  /\ last = Idle
  /\ issued = {}
  /\ run = <<>>
  /\ startedEmpty = FALSE

\* contacts = load_contacts() / tasks = load_tasks() at the top of main_menu
Load ==
  /\ pc = "start" /\ app \in {"contact", "todo"}
  /\ LET r == IF app = "contact" THEN load_contacts(file) ELSE load_tasks(file)
     IN  /\ store' = r.value
         /\ pc' = IF r.exc # "" THEN "crashed" ELSE "returned"
         /\ startedEmpty' = (r.exc = "" /\ r.value = <<>>)
         /\ issued' = IdsOf(r.value)
         /\ last' = Last("load", NoInputs, Res(r.value, FALSE, <<>>, r.exc, 0),
                         "none", Before(store, file, issued))
  /\ UNCHANGED <<app, file, disk, run>>

\* The top of the while loop: the menu is printed and the choice is awaited
Menu ==
  /\ pc = "returned"
  /\ pc' = "menu"
  /\ last' = Idle
  /\ UNCHANGED <<app, store, file, disk, issued, run, startedEmpty>>

\* The file after a handler of program a with result r ran on file f
file_after(a, r, f, outcome) ==
  CASE ~r.save -> f
    [] a = "contact" -> save_contacts(r.store, f, outcome)
    [] OTHER -> save_tasks(r.store, f, outcome)

\* A handler called from the menu loop, with what it read and its result r
Handle(op, in, r) ==
  /\ store' = r.store
  /\ file' = file_after(app, r, file, disk)
  /\ pc' = IF r.exc # "" THEN "crashed" ELSE "returned"
  /\ last' = Last(op, in, r, IF r.save THEN disk ELSE "none",
                  Before(store, file, issued))
  /\ issued' = IF r.id # 0 THEN issued \cup {r.id} ELSE issued
  /\ run' = CASE r.id # 0 -> Append(run, r.id)
              [] Len(r.store) < Len(store) -> <<>>
              [] OTHER -> run
  /\ UNCHANGED <<app, disk, startedEmpty>>

\* add_contact reads its four inputs, then validates
AddContact ==
  /\ pc = "menu" /\ app = "contact"
  /\ \E in \in AddContactInputs :
       LET r == add_contact(store, in[1], in[2], in[3], in[4])
       IN  /\ r.id <= MaxId
           /\ Handle("add", In(NoInput, NoInput, in, NoInput), r)

ViewContacts ==
  /\ pc = "menu" /\ app = "contact"
  /\ Handle("view", NoInputs, view_contacts(store))

SearchContacts ==
  /\ pc = "menu" /\ app = "contact"
  /\ IF store = <<>>
       THEN Handle("search", NoInputs, search_contacts(store, NoInput))
       ELSE \E query_in \in QueryInputs :
              Handle("search", In(Typed(query_in), NoInput, NoInput, NoInput),
                     search_contacts(store, query_in))

\* update_contact and delete_contact get past search_contacts
contact_selects(contacts, query_in) ==
  /\ search_exc(contacts, query_in) = ""
  /\ search_results(contacts, query_in) # <<>>

\* what select_contact returns to them
contact_selected(contacts, query_in, choices) ==
  select_contact(Len(search_results(contacts, query_in)), choices)

UpdateContact ==
  /\ pc = "menu" /\ app = "contact"
  /\ IF store = <<>>
       THEN Handle("update", NoInputs,
                   update_contact(store, NoInput, NoInput, NoInput, NoInput,
                                  NoInput, NoInput))
       ELSE \E query_in \in QueryInputs :
         IF ~contact_selects(store, query_in)
           THEN Handle("update",
                       In(Typed(query_in), NoInput, NoInput, NoInput),
                       update_contact(store, query_in, NoInput, NoInput,
                                      NoInput, NoInput, NoInput))
           ELSE \E choices \in ChoiceLists :
                  /\ contact_selected(store, query_in, choices) >= 0
                  /\ IF contact_selected(store, query_in, choices) = 0
                       THEN Handle("update",
                                   In(Typed(query_in), choices, NoInput, NoInput),
                                   update_contact(store, query_in, choices,
                                                  NoInput, NoInput, NoInput,
                                                  NoInput))
                       ELSE \E in \in UpdateContactInputs :
                              Handle("update",
                                     In(Typed(query_in), choices, in, NoInput),
                                     update_contact(store, query_in, choices,
                                                    in[1], in[2], in[3], in[4]))

DeleteContact ==
  /\ pc = "menu" /\ app = "contact"
  /\ IF store = <<>>
       THEN Handle("delete", NoInputs,
                   delete_contact(store, NoInput, NoInput, NoInput))
       ELSE \E query_in \in QueryInputs :
         IF ~contact_selects(store, query_in)
           THEN Handle("delete",
                       In(Typed(query_in), NoInput, NoInput, NoInput),
                       delete_contact(store, query_in, NoInput, NoInput))
           ELSE \E choices \in ChoiceLists :
                  /\ contact_selected(store, query_in, choices) >= 0
                  /\ IF contact_selected(store, query_in, choices) = 0
                       THEN Handle("delete",
                                   In(Typed(query_in), choices, NoInput, NoInput),
                                   delete_contact(store, query_in, choices,
                                                  NoInput))
                       ELSE \E confirm_in \in ConfirmInputs :
                              Handle("delete",
                                     In(Typed(query_in), choices, NoInput,
                                        Typed(confirm_in)),
                                     delete_contact(store, query_in, choices,
                                                    confirm_in))

\* add_task returns on an empty description before it asks for the rest
AddTask ==
  /\ pc = "menu" /\ app = "todo"
  /\ \E in \in AddTaskInputs :
       LET r == add_task(store, in[1], in[2], in[3])
       IN  /\ r.id <= MaxId
           /\ Handle("add",
                     In(NoInput, NoInput,
                        IF strip(in[1]) = <<>> THEN <<in[1]>> ELSE in, NoInput),
                     r)

ListTasks ==
  /\ pc = "menu" /\ app = "todo"
  /\ Handle("list", NoInputs, list_tasks(store))

\* update_task, toggle_completion and delete_task ask for an id
task_asks_id(tasks) == tasks # <<>> /\ list_tasks_exc(tasks) = ""

\* ... and find the task the id names
task_found(tasks, id_in) ==
  /\ IntParses(id_in)
  /\ IntOf(id_in) # 0
  /\ find_task_by_id(tasks, IntOf(id_in)) # 0

UpdateTask ==
  /\ pc = "menu" /\ app = "todo"
  /\ IF ~task_asks_id(store)
       THEN Handle("update", NoInputs,
                   update_task(store, NoInput, NoInput, NoInput, NoInput))
       ELSE \E id_in \in IdInputs :
              IF ~task_found(store, id_in)
                THEN Handle("update",
                            In(Typed(id_in), NoInput, NoInput, NoInput),
                            update_task(store, id_in, NoInput, NoInput, NoInput))
                ELSE \E in \in UpdateTaskInputs :
                       Handle("update", In(Typed(id_in), NoInput, in, NoInput),
                              update_task(store, id_in, in[1], in[2], in[3]))

ToggleCompletion ==
  /\ pc = "menu" /\ app = "todo"
  /\ IF ~task_asks_id(store)
       THEN Handle("toggle", NoInputs, toggle_completion(store, NoInput))
       ELSE \E id_in \in IdInputs :
              Handle("toggle", In(Typed(id_in), NoInput, NoInput, NoInput),
                     toggle_completion(store, id_in))

DeleteTask ==
  /\ pc = "menu" /\ app = "todo"
  /\ IF ~task_asks_id(store)
       THEN Handle("delete", NoInputs, delete_task(store, NoInput, NoInput))
       ELSE \E id_in \in IdInputs :
              IF ~task_found(store, id_in)
                THEN Handle("delete",
                            In(Typed(id_in), NoInput, NoInput, NoInput),
                            delete_task(store, id_in, NoInput))
                ELSE \E confirm_in \in ConfirmInputs :
                       Handle("delete",
                              In(Typed(id_in), NoInput, NoInput,
                                 Typed(confirm_in)),
                              delete_task(store, id_in, confirm_in))

\* A menu choice that is no key of the dispatch table
InvalidSelection ==
  /\ pc = "menu"
  /\ Handle("invalid", NoInputs,
            Res(store, FALSE,
                <<"Invalid selection. Please choose a valid option.">>, "", 0))

\* Option 6: exit(0)
Exit ==
  /\ pc = "menu"
  /\ pc' = "exited"
  /\ last' = Last("exit", NoInputs, Res(store, FALSE, <<>>, "", 0), "none",
                  Before(store, file, issued))
  /\ UNCHANGED <<app, store, file, disk, issued, run, startedEmpty>>

\* The prompt the program is waiting at: the menu prompt of a manager, the
\* first prompt of the password generator
AtPrompt == pc = "menu" \/ (app = "password" /\ pc = "start")

\* Ctrl-C at a prompt.  The managers catch KeyboardInterrupt around main_menu;
\* every handler reads all its input before it changes the list, so the
\* interrupt leaves the list and the file as they were.  The password
\* generator calls main() with no try around it.
Interrupt ==
  /\ AtPrompt
  /\ pc' = IF app = "password" THEN "crashed" ELSE "exited"
  /\ last' = Last("interrupt", NoInputs,
                  IF app = "password"
                    THEN Res(store, FALSE, <<>>, "KeyboardInterrupt", 0)
                    ELSE Res(store, FALSE, <<"Program terminated by user.">>,
                             "", 0),
                  "none", Before(store, file, issued))
  /\ UNCHANGED <<app, store, file, disk, issued, run, startedEmpty>>

\* The end of the input (Ctrl-D, a closed or exhausted stdin) at a prompt:
\* input() raises EOFError, which no program catches
EndOfInput ==
  /\ AtPrompt
  /\ pc' = "crashed"
  /\ last' = Last("eof", NoInputs, Res(store, FALSE, <<>>, "EOFError", 0),
                  "none", Before(store, file, issued))
  /\ UNCHANGED <<app, store, file, disk, issued, run, startedEmpty>>

\* password_generator.py run to its end, with all its prompts answered
PasswordMain ==
  /\ pc = "start" /\ app = "password"
  /\ \E length_inputs \in LengthInputs, answers \in YesNoInputs :
       \E draws \in [1..main_length(length_inputs) -> DrawValues] :
         LET r == main(length_inputs, answers, draws)
         IN  /\ pc' = "exited"
             /\ last' = Last("main",
                             In(length_inputs, NoInput, answers, NoInput),
                             Res(store, FALSE, r.out, r.exc, 0), "none",
                             Before(store, file, issued))
                          @@ [password |-> r.password]
  /\ UNCHANGED <<app, store, file, disk, issued, run, startedEmpty>>

\* The run is over
Ended == pc \in {"exited", "crashed"}

\* The exit status of the process: 0 after exit(0) and after the script ran
\* to its end, not 0 when an exception ended it with a traceback
ExitStatus == IF pc = "crashed" THEN 1 ELSE 0

Next ==
  \/ Load
  \/ Menu
  \/ AddContact
  \/ ViewContacts
  \/ SearchContacts
  \/ UpdateContact
  \/ DeleteContact
  \/ AddTask
  \/ ListTasks
  \/ UpdateTask
  \/ ToggleCompletion
  \/ DeleteTask
  \/ InvalidSelection
  \/ Exit
  \/ Interrupt
  \/ EndOfInput
  \/ PasswordMain

Spec == Init /\ [][Next]_vars

-----------------------------------------------------------------------------
(* generate_password called alone, on arguments of every kind *)

Lengths == (0 - 1)..MaxLength

Arguments ==
  [length : Lengths, use_uppercase : BOOLEAN, use_lowercase : BOOLEAN,
   use_digits : BOOLEAN, use_symbols : BOOLEAN]

GenInit ==
  /\ app = "generate_password"
  /\ pc = "start"
  /\ last \in {[op |-> "", args |-> a, result |-> Outcome("", "", <<>>)] :
                 a \in Arguments}
  /\ store = <<>>
  /\ file = FileAbsent
  /\ disk = "ok"
  /\ issued = {}
  /\ run = <<>>
  /\ startedEmpty = FALSE

\* The call returns a str or raises
Generate ==
  /\ pc = "start" /\ app = "generate_password"
  /\ \E draws \in [1..(IF last.args.length > 0 THEN last.args.length ELSE 0)
                      -> DrawValues] :
       LET a == last.args
           g == generate_password(a.length, a.use_uppercase, a.use_lowercase,
                                  a.use_digits, a.use_symbols, draws)
       IN  /\ last' = [last EXCEPT !.op = "generate_password", !.result = g]
           /\ pc' = IF g.exc = "" THEN "returned" ELSE "crashed"
  /\ UNCHANGED <<app, store, file, disk, issued, run, startedEmpty>>

GenNext == Generate

GenSpec == GenInit /\ [][GenNext]_vars
-----------------------------------------------------------------------------
(* Identifiers *)

\* a successful create has just returned
Created == pc = "returned" /\ last.op = "add" /\ last.id # 0

\* C1: the identifier a create gives to the new record was never held by an
\* earlier record of the store, deleted ones included.
IdsNeverReused == Created => last.id \notin last.before.issued

\* C2: from an empty store on, no two records of the store have the same
\* identifier.
UniqueIds ==
  startedEmpty =>
    \A i, j \in 1..Len(store) :
      i # j => /\ HasKey(store[i], K_id)
               /\ HasKey(store[j], K_id)
               /\ store[i][K_id] # store[j][K_id]

\* a create onto a list that has lost a record and still holds one
UniqueIdsWitness ==
  /\ startedEmpty
  /\ Created
  /\ Len(store) >= 2
  /\ last.before.issued \ IdsOf(last.before.store) # {}

\* C3: the identifiers assigned by creates with no deletion in between are
\* strictly increasing, hence pairwise distinct.
CreatesIncrease == \A i, j \in 1..Len(run) : i < j => run[i] < run[j]

CreatesIncreaseWitness == Created /\ Len(run) >= 2 /\ ~startedEmpty

\* C4: no create is given an identifier smaller than one given before it.
IdsNonDecreasing == Created => \A earlier \in last.before.issued : last.id >= earlier

-----------------------------------------------------------------------------
(* Persistence *)

\* add, update, toggle or delete has just returned to the menu loop
Mutators == {"add", "update", "toggle", "delete"}

Mutated ==
  pc = "returned" /\ last.op \in Mutators /\ store # last.before.store

\* C5: when a handler that changed the list returns, it has rewritten the
\* file, and if the write succeeded the file is the whole list as it now is:
\* one object per record, in list order, with the record's fields and values.
FileHoldsStore ==
  Mutated => /\ last.write # "none"
             /\ last.write = "ok" => file = json_dump(store)

FileHoldsStoreWitness ==
  Mutated /\ last.op = "delete" /\ last.write = "ok" /\ Len(store) >= 1

\* C6: saving the list and loading the file again gives the same list.
RoundTrip ==
  pc \in {"menu", "returned"} =>
    LET r == IF app = "contact" THEN load_contacts(json_dump(store))
                                ELSE load_tasks(json_dump(store))
    IN  r.exc = "" /\ r.value = store

\* The file is missing, cannot be read as JSON, has no array on top, or has
\* an array element that is no object
Malformed(f) ==
  \/ f.kind # "json"
  \/ f.top # "array"
  \/ \E i \in 1..Len(f.items) : f.items[i].e # "object"

\* C7: load of a missing or malformed file gives the empty list and raises
\* nothing.
MalformedLoadsEmpty ==
  (last.op = "load" /\ Malformed(last.before.file)) =>
    pc # "crashed" /\ store = <<>>

-----------------------------------------------------------------------------
(* Frames *)

\* text of whitespace only
Blank(text) == \A i \in 1..Len(text) : text[i] \in Whitespace

\* update has asked for the new field values and all answers were blank
BlankUpdate ==
  /\ last.op = "update"
  /\ last.in.fields # NoInput
  /\ \A i \in 1..Len(last.in.fields) : Blank(last.in.fields[i])

\* C8: an update answered with blanks only leaves every record as it was.
BlankUpdateKeepsAll == BlankUpdate => store = last.before.store

BlankUpdateKeepsAllWitness ==
  /\ BlankUpdate
  /\ pc = "returned"
  /\ \E i \in 1..Len(store) :
       \/ Get(store[i], K_email, PyStr(<<>>)) # PyStr(<<>>)
       \/ Get(store[i], K_notes, PyStr(<<>>)) # PyStr(<<>>)

\* delete_task was given, as the id, an integer that no task of the list has
DeleteOfUnknownId ==
  /\ app = "todo"
  /\ last.op = "delete"
  /\ last.in.arg # NoInput
  /\ IntParses(last.in.arg[1])
  /\ \A i \in 1..Len(last.before.store) :
       ~PyEq(Get(last.before.store[i], K_id, PyNone), PyInt(IntOf(last.in.arg[1])))

Untouched ==
  /\ store = last.before.store
  /\ file = last.before.file
  /\ last.write = "none"

\* C9, as stated: deleting an id no task has reports "not found" and changes
\* neither the list nor the file.
UnknownIdNotFound ==
  DeleteOfUnknownId => last.out = <<"Task not found.">> /\ Untouched

\* C9, amended: so it is for every such id but 0, which cancels the deletion
\* ("Deletion cancelled."), again with the list and the file untouched.
UnknownNonZeroIdNotFound ==
  DeleteOfUnknownId =>
    /\ Untouched
    /\ last.out = IF IntOf(last.in.arg[1]) = 0
                    THEN <<"Deletion cancelled.">>
                    ELSE <<"Task not found.">>

UnknownNonZeroIdNotFoundWitness ==
  /\ DeleteOfUnknownId
  /\ pc = "returned"
  /\ IntOf(last.in.arg[1]) # 0
  /\ Len(store) >= 2

\* the answer is y or yes, whatever its case and the whitespace around it
IsYes(text) == lower(strip(text)) \in {<<"y">>, <<"y", "e", "s">>}

\* delete has run without a yes at its confirmation prompt
Unconfirmed ==
  /\ last.op = "delete"
  /\ \/ last.in.confirm = NoInput
     \/ ~IsYes(last.in.confirm[1])

\* C10: a delete that was not confirmed with y or yes changes neither the
\* list nor the file.
UnconfirmedDeleteKeepsAll ==
  Unconfirmed => store = last.before.store /\ file = last.before.file

UnconfirmedDeleteKeepsAllWitness ==
  /\ Unconfirmed
  /\ pc = "returned"
  /\ last.in.confirm # NoInput
  /\ last.in.confirm[1] # <<>>
  /\ last.out = <<"Deletion aborted.">>


-----------------------------------------------------------------------------
(* Search *)

\* needle occurs in hay as a run of consecutive characters
IsSubstring(needle, hay) ==
  \E k \in 0..(Len(hay) - Len(needle)) :
    \A j \in 1..Len(needle) : hay[k + j] = needle[j]

\* search_contacts has returned, from the menu, with a query read
Searched ==
  /\ app = "contact" /\ pc = "returned"
  /\ last.op = "search" /\ last.in.arg # NoInput

\* The query as typed, and as trimmed and lower-cased
TypedQuery == last.in.arg[1]
TrimmedQuery == strip(TypedQuery)
Query == lower(TrimmedQuery)

\* The positions in the store of the records search_contacts returned
Returned == search_results(last.before.store, TypedQuery)

\* The positions of the stored records whose field, lower-cased, contains q
FieldHits(key, q) ==
  {i \in 1..Len(last.before.store) :
     IsSubstring(q, lower(Get(last.before.store[i], key, PyStr(<<>>)).s))}

\* The query is typed as it is compared: nothing to trim, nothing to fold
QueryIsPlain == TypedQuery = Query

\* C11, as stated: a search for a string that is a substring of exactly one
\* stored contact's name returns that contact and no other.
OneNameHitReturnsIt ==
  (Searched /\ QueryIsPlain /\ Cardinality(FieldHits(K_name, Query)) = 1)
    => \A i \in FieldHits(K_name, Query) : Returned = <<i>>

\* C11, amended: a search for a string that, trimmed and compared without
\* regard to case, is a substring of exactly one stored contact's name and of
\* no other stored contact's phone returns that contact and no other.
OneNameHitNoPhoneHitReturnsIt ==
  (/\ Searched
   /\ Cardinality(FieldHits(K_name, Query)) = 1
   /\ FieldHits(K_phone, Query) \subseteq FieldHits(K_name, Query))
    => \A i \in FieldHits(K_name, Query) : Returned = <<i>>

OneNameHitNoPhoneHitReturnsItWitness ==
  /\ Searched
  /\ Cardinality(FieldHits(K_name, Query)) = 1
  /\ FieldHits(K_phone, Query) = {}
  /\ ~QueryIsPlain
  /\ Len(store) >= 2
  /\ last.out = <<"Search Results:">>

\* The positions of the stored records whose name or phone contains q
Hits(q) == FieldHits(K_name, q) \cup FieldHits(K_phone, q)

\* The returned records are exactly those at the positions S, in store order
ReturnedExactly(S) ==
  /\ {Returned[k] : k \in 1..Len(Returned)} = S
  /\ \A j, k \in 1..Len(Returned) : j < k => Returned[j] < Returned[k]

\* C12, as stated: contact search returns exactly the stored records whose
\* name or phone contains the query, compared without regard to case, every
\* one of them, in store order.
SearchReturnsAllHits == Searched => ReturnedExactly(Hits(lower(TypedQuery)))

\* C12, amended: contact search returns exactly the stored records whose name
\* or phone contains the query trimmed of surrounding whitespace, compared
\* without regard to case, every one of them, in store order.
SearchReturnsAllTrimmedHits == Searched => ReturnedExactly(Hits(Query))

SearchReturnsAllTrimmedHitsWitness ==
  /\ Searched
  /\ TrimmedQuery # TypedQuery
  /\ Len(Returned) >= 2
  /\ FieldHits(K_phone, Query) \ FieldHits(K_name, Query) # {}
  /\ FieldHits(K_name, Query) \ FieldHits(K_phone, Query) # {}

-----------------------------------------------------------------------------
(* Create *)

\* A create was asked for with a required field blank: the name or the phone
\* of a contact, the description of a task
CreateWithoutRequired ==
  /\ last.op = "add" /\ last.in.fields # NoInput
  /\ IF app = "contact"
       THEN Blank(last.in.fields[1]) \/ Blank(last.in.fields[2])
       ELSE Blank(last.in.fields[1])

\* C13: a create whose required field is empty after trimming is rejected:
\* nothing is appended, no identifier is assigned, and the store and the file
\* are as they were, the file not written.
CreateWithoutRequiredRejected ==
  CreateWithoutRequired
    => /\ store = last.before.store
       /\ file = last.before.file
       /\ last.write = "none"
       /\ last.id = 0
       /\ issued = last.before.issued

CreateWithoutRequiredRejectedWitness ==
  /\ CreateWithoutRequired /\ pc = "returned"
  /\ app = "contact"
  /\ ~Blank(last.in.fields[1])
  /\ last.in.fields[2] # <<>>
  /\ Len(store) >= 1

-----------------------------------------------------------------------------
(* Dates *)

\* add_task or update_task read, at its due date prompt, a text that is not
\* blank and that strptime rejects
InvalidDateEntered ==
  /\ app = "todo" /\ pc = "returned"
  /\ last.op \in {"add", "update"} /\ last.in.fields # NoInput
  /\ last.op = "add" => ~Blank(last.in.fields[1])
  /\ ~Blank(last.in.fields[2])
  /\ ~strptime_ok(strip(last.in.fields[2]))

DueDates(tasks) == [i \in 1..Len(tasks) |-> Get(tasks[i], K_due_date, PyNone)]

-----------------------------------------------------------------------------
(* The end of a run *)

\* C15: in each of the three programs a run that ends does so with exit
\* status 0 and with no exception reaching the user, and a keyboard interrupt
\* at a prompt is answered with the exit message.
EndsGracefully ==
  Ended
    => /\ ExitStatus = 0
       /\ last.exc = ""
       /\ last.op = "interrupt" => last.out = <<"Program terminated by user.">>

-----------------------------------------------------------------------------
(* generate_password *)

\* generate_password was called, on the arguments last.args
Called == app = "generate_password" /\ last.op = "generate_password"

\* The characters of a sequence
Range(seq) == {seq[i] : i \in 1..Len(seq)}

\* The union of the character sets the arguments select
Selected(a) ==
  (IF a.use_lowercase THEN Range(ascii_lowercase) ELSE {})
    \cup (IF a.use_uppercase THEN Range(ascii_uppercase) ELSE {})
    \cup (IF a.use_digits THEN Range(digits) ELSE {})
    \cup (IF a.use_symbols THEN Range(punctuation) ELSE {})

NoneSelected(a) ==
  ~(a.use_uppercase \/ a.use_lowercase \/ a.use_digits \/ a.use_symbols)

\* C16: generate_password raises ValueError exactly when length <= 0 or no
\* character set is selected; otherwise it returns a string of exactly length
\* characters, each of them in the union of the selected sets.
GeneratePasswordContract ==
  Called
    => LET a == last.args
           r == last.result
       IN  /\ r.exc \in {"", "ValueError"}
           /\ r.exc = "ValueError" <=> (a.length <= 0 \/ NoneSelected(a))
           /\ r.exc = ""
                => /\ Len(r.value) = a.length
                   /\ \A i \in 1..Len(r.value) : r.value[i] \in Selected(a)

GeneratePasswordContractWitness ==
  /\ Called /\ pc = "returned"
  /\ last.args.length = MaxLength
  /\ ~last.args.use_lowercase /\ ~last.args.use_uppercase
  /\ last.args.use_digits /\ last.args.use_symbols
  /\ last.result.value[1] \in Range(digits)
  /\ last.result.value[MaxLength] \in Range(punctuation)

-----------------------------------------------------------------------------
(* Toggle *)

\* toggle_completion found the task of the identifier typed and toggled it
Toggled ==
  /\ app = "todo" /\ pc = "returned" /\ last.op = "toggle"
  /\ last.out \in {<<"Task marked as completed.">>,
                   <<"Task marked as pending.">>}

\* The position of the task it toggled: the first with the identifier typed
ToggledAt ==
  LET named(i) == PyEq(Get(last.before.store[i], K_id, PyNone),
                       PyInt(IntOf(last.in.arg[1])))
  IN  CHOOSE i \in 1..Len(last.before.store) :
        named(i) /\ \A j \in 1..(i - 1) : ~named(j)

\* What that task held as completed before, False when it had no such field
OldFlag == Get(last.before.store[ToggledAt], K_completed, PyBool(FALSE))

\* The store differs from the store before in the completed field of the
\* toggled task only, which holds the inverse of what it held
OnlyFlagInverted ==
  /\ Len(store) = Len(last.before.store)
  /\ \A i \in 1..Len(store) : i # ToggledAt => store[i] = last.before.store[i]
  /\ DOMAIN store[ToggledAt]
       = DOMAIN last.before.store[ToggledAt] \cup {K_completed}
  /\ \A k \in DOMAIN last.before.store[ToggledAt] \ {K_completed} :
       store[ToggledAt][k] = last.before.store[ToggledAt][k]
  /\ store[ToggledAt][K_completed] = PyBool(~Truthy(OldFlag))

\* The store after the same identifier is toggled once more
ToggledAgain == toggle_completion(store, last.in.arg[1]).store

\* C17, as stated: a toggle of an existing task inverts its completed flag
\* and changes nothing else, and a second toggle of the same identifier
\* restores the store to exactly what it was.
ToggleTwiceRestores ==
  Toggled => OnlyFlagInverted /\ ToggledAgain = last.before.store

\* C17, amended: a toggle of an existing task inverts its completed flag (no
\* flag counting as False) and changes nothing else; a second toggle of the
\* same identifier restores the store exactly when the task held a bool as
\* completed, and otherwise leaves completed holding the bool of what it held.
ToggleTwiceRestoresBool ==
  Toggled
    => /\ OnlyFlagInverted
       /\ ToggledAgain
            = [last.before.store EXCEPT
                 ![ToggledAt] = SetItem(@, K_completed, PyBool(Truthy(OldFlag)))]
       /\ (HasKey(last.before.store[ToggledAt], K_completed)
             /\ OldFlag \in {PyBool(TRUE), PyBool(FALSE)})
            => ToggledAgain = last.before.store

ToggleTwiceRestoresBoolWitness ==
  /\ Toggled
  /\ Len(store) >= 2
  /\ ToggledAt = 2
  /\ OldFlag = PyBool(TRUE)
  /\ last.out = <<"Task marked as pending.">>

-----------------------------------------------------------------------------
(* Delete *)

\* A delete came to its confirmation prompt, a record being selected, and
\* was answered y or yes
ConfirmedDelete ==
  /\ pc = "returned" /\ last.op = "delete"
  /\ last.in.confirm # NoInput /\ IsYes(last.in.confirm[1])

\* The number typed at the prompt of select_contact that ended its loop
ChoiceTaken ==
  DecimalValue(strip(last.in.choices[Len(last.in.choices)]))

\* The position in the store of the record the user selected: the entry of
\* the search results with the number chosen, or the first task with the
\* identifier typed
SelectedAt ==
  IF app = "contact"
    THEN CHOOSE p \in Hits(Query) :
           Cardinality({q \in Hits(Query) : q <= p}) = ChoiceTaken
    ELSE LET named(i) == PyEq(Get(last.before.store[i], K_id, PyNone),
                              PyInt(IntOf(last.in.arg[1])))
         IN  CHOOSE i \in 1..Len(last.before.store) :
               named(i) /\ \A j \in 1..(i - 1) : ~named(j)

\* list without its p-th element, the others as they were and in their order
Without(list, p) ==
  [i \in 1..(Len(list) - 1) |-> IF i < p THEN list[i] ELSE list[i + 1]]

\* C18: a confirmed delete removes exactly one record, the one the user
\* selected, and leaves every other record as it was and in its place among
\* the others.
ConfirmedDeleteRemovesSelected ==
  ConfirmedDelete
    => /\ Len(store) = Len(last.before.store) - 1
       /\ store = Without(last.before.store, SelectedAt)

ConfirmedDeleteRemovesSelectedWitness ==
  /\ ConfirmedDelete
  /\ Len(last.before.store) >= 2
  /\ SelectedAt = 2
  /\ app = "todo"

====
